---- MODULE Spec2Model ----
(***************************************************************************)
(* Model of src/process_v8.py: the CSV processor that resolves, for every   *)
(* row of the primary file VIG_TRANSACI_CALYPSO_D<aammdd>.csv, the value of *)
(* column 3 by looking the normalized value of column 4 up in fwd_div,      *)
(* fwd_usd and LIQUIDACIONES, in that order.                                *)
(*                                                                          *)
(* Representation.  A string is a sequence of one-character strings.  NaN   *)
(* is the missing value pandas puts in a cell.  A CSV line is a function    *)
(* from 0-based column numbers to field texts.  A file is a record with     *)
(* its state ("ok", "ilegible") and its lines; a file that does not exist   *)
(* is not in the domain of data.  The lines of a file all have the width of *)
(* its first line: pandas pads a shorter line with NaN, exactly what it     *)
(* reads from an empty field, and raises on a longer one, which is the      *)
(* state "ilegible".  A DataFrame is a record with its column labels (in    *)
(* order) and its rows, each a function from column labels to cells.        *)
(***************************************************************************)
EXTENDS Integers, Sequences, FiniteSets, TLC

VARIABLES
  data,                 \* the directory data/: file name -> file
  procesados,           \* the directory procesados/: file name -> written lines
  pc,                   \* position in procesar_archivo_principal
  df_principal, df_fwd_div, df_fwd_usd, df_liquidaciones,
  i,                    \* label of the next row of df_principal.iterrows()
  total_filas, modificadas, no_encontradas,
  log_no_encontrados,   \* lines of logs/log_no_encontrados.txt
  log,                  \* "Coincidencia en ..." lines of the operational log
  resumen,              \* the "RESUMEN DE PROCESAMIENTO" block, when emitted
  retorno,              \* value returned by procesar_archivo_principal
  buscadas,             \* tables whose scan loop the last processed row entered
  fecha_corta, fecha_larga, \* arguments of procesar_archivo_principal
  pc_lote,              \* position in procesar_todos_los_archivos
  archivos_principales, \* procesar_todos_los_archivos: the filtered listing
  k,                    \* procesar_todos_los_archivos: position in the listing
  archivos_procesados,  \* procesar_todos_los_archivos: the success counter
  retorno_lote,         \* value returned by procesar_todos_los_archivos
  intentos              \* procesar_todos_los_archivos: calls made, in order

vars == <<data, procesados, pc, df_principal, df_fwd_div, df_fwd_usd,
          df_liquidaciones, i, total_filas, modificadas, no_encontradas,
          log_no_encontrados, log, resumen, retorno, buscadas,
          fecha_corta, fecha_larga, pc_lote, archivos_principales, k,
          archivos_procesados, retorno_lote, intentos>>

lote == <<pc_lote, archivos_principales, k, archivos_procesados, retorno_lote,
          intentos>>

(***************************************************************************)
(* Bounds of the model.                                                     *)
(***************************************************************************)
MaxRows == 2

MaxRefTotal == 2

MaxLen == 3

MaxRefLen == 2

(***************************************************************************)
(* Column numbers the program hard-codes.                                   *)
(***************************************************************************)
COL_BUSCAR == 4

COL_DESTINO == 3

COL_CLAVE_FWD == 43

COL_VALOR_FWD == 0

COL_CLAVE_LIQ == 1

COL_VALOR_LIQ == 20

(***************************************************************************)
(* Strings and cells.                                                       *)
(***************************************************************************)
NaN == <<"NaN">>

NO_ENCONTRADO == <<"n", "o", " ", "e", "n", "c", "o", "n", "t", "r", "a", "d", "o">>

Digitos == <<"0", "1", "2", "3", "4", "5", "6", "7", "8", "9">>

EsDigito(c) == \E d \in 1..10 : Digitos[d] = c

ValorDigito(c) == (CHOOSE d \in 1..10 : Digitos[d] = c) - 1

EsEspacio(c) == c = " "

RECURSIVE lstrip(_)
lstrip(s) ==
  IF s # <<>> /\ EsEspacio(Head(s)) THEN lstrip(Tail(s)) ELSE s

RECURSIVE rstrip(_)
rstrip(s) ==
  IF s # <<>> /\ EsEspacio(s[Len(s)]) THEN rstrip(SubSeq(s, 1, Len(s) - 1)) ELSE s

strip(s) == rstrip(lstrip(s))

\* re.match(r'^\d+$', s)
SoloDigitos(s) == s # <<>> /\ \A p \in 1..Len(s) : EsDigito(s[p])

\* int(s) for a string of decimal digits
RECURSIVE int(_)
int(s) ==
  IF s = <<>> THEN 0
  ELSE int(SubSeq(s, 1, Len(s) - 1)) * 10 + ValorDigito(s[Len(s)])

\* str(n) for a natural number
RECURSIVE str(_)
str(n) ==
  IF n < 10 THEN <<Digitos[n + 1]>>
  ELSE str(n \div 10) \o <<Digitos[(n % 10) + 1]>>

normalizar_sin_strip(valor) ==
  IF valor = NaN THEN <<>>
  ELSE IF SoloDigitos(valor) THEN str(int(valor)) ELSE valor

normalizar_valores(valor) ==
  IF valor = NaN THEN <<>>
  ELSE LET valor_str == strip(valor)
       IN  IF SoloDigitos(valor_str) THEN str(int(valor_str)) ELSE valor_str

(***************************************************************************)
(* File names.  A name is pref + fecha + ".csv" + cola.                     *)
(***************************************************************************)
PREF_PRINCIPAL == "VIG_TRANSACI_CALYPSO_"

PREF_FWD_DIV == "fwd_div_Calypso_"

PREF_FWD_USD == "fwd_usd_Calypso_"

PREF_LIQUIDACIONES == "LIQUIDACIONES_"

Nombre(pref, fecha, cola) == [pref |-> pref, fecha |-> fecha, cola |-> cola]

UltimosDigitos(fecha, n) ==
  /\ Len(fecha) >= n
  /\ \A p \in (Len(fecha) - n + 1)..Len(fecha) : EsDigito(fecha[p])

\* None is the empty sequence: falsy, as in the source.
convertir_formato_fecha(fecha, formato_origen) ==
  IF formato_origen = "corto"
  THEN IF /\ UltimosDigitos(fecha, 6)
          /\ Len(fecha) >= 7
          /\ fecha[Len(fecha) - 6] = "D"
       THEN <<"2", "0">> \o SubSeq(fecha, Len(fecha) - 5, Len(fecha))
       ELSE <<>>
  ELSE IF formato_origen = "largo" /\ UltimosDigitos(fecha, 8)
       THEN <<"D">> \o SubSeq(fecha, Len(fecha) - 5, Len(fecha))
       ELSE <<>>

\* re.match(r'VIG_TRANSACI_CALYPSO_D\d{6}\.csv', a): anchored at the start of
\* the name only, so whatever follows ".csv" is accepted.
CoincidePatron(a) ==
  /\ a.pref = PREF_PRINCIPAL
  /\ Len(a.fecha) = 7
  /\ a.fecha[1] = "D"
  /\ UltimosDigitos(a.fecha, 6)

obtener_fecha_del_archivo(archivo_principal) ==
  IF CoincidePatron(archivo_principal)
  THEN <<archivo_principal.fecha,
         convertir_formato_fecha(archivo_principal.fecha, "corto")>>
  ELSE <<<<>>, <<>>>>

(***************************************************************************)
(* pandas: read_csv, DataFrame, .at, concat, to_csv.                        *)
(***************************************************************************)
DataFrameVacio == [cols |-> <<>>, filas |-> <<>>]

\* DataFrame.empty
empty(df) == Len(df.cols) = 0 \/ Len(df.filas) = 0

existe(dat, ruta) == ruta \in DOMAIN dat

\* read_csv turns an empty field into NaN (dtype=str does not change that).
LeerCelda(texto) == IF texto = <<>> THEN NaN ELSE texto

\* to_csv writes NaN as an empty field.
EscribirCelda(celda) == IF celda = NaN THEN <<>> ELSE celda

\* pd.read_csv(ruta, sep=';', header=None, dtype=str): raises when the file
\* is absent, cannot be parsed, or holds no line at all.
read_csv_falla(dat, ruta) ==
  \/ ~existe(dat, ruta)
  \/ dat[ruta].estado # "ok"
  \/ dat[ruta].lineas = <<>>

read_csv(dat, ruta) ==
  LET lineas == dat[ruta].lineas
      ancho == Cardinality(DOMAIN lineas[1])
  IN  [cols |-> [p \in 1..ancho |-> p - 1],
       filas |-> [n \in 1..Len(lineas) |->
                   [c \in 0..(ancho - 1) |-> LeerCelda(lineas[n][c])]]]

leer_sin_descartar(dat, ruta_archivo) ==
  IF read_csv_falla(dat, ruta_archivo) THEN DataFrameVacio
  ELSE read_csv(dat, ruta_archivo)

leer_ilegible(dat, ruta_archivo) ==
  IF ~existe(dat, ruta_archivo) \/ dat[ruta_archivo].lineas = <<>>
  THEN DataFrameVacio
  ELSE LET df == read_csv(dat, ruta_archivo)
       IN  IF Len(df.filas) > 1
           THEN [cols |-> df.cols, filas |-> Tail(df.filas)]
           ELSE DataFrameVacio

leer_archivo_csv(dat, ruta_archivo) ==
  IF read_csv_falla(dat, ruta_archivo) THEN DataFrameVacio
  ELSE LET df == read_csv(dat, ruta_archivo)
       IN  IF Len(df.filas) > 1
           THEN [cols |-> df.cols, filas |-> Tail(df.filas)]
           ELSE DataFrameVacio

\* len(fila) for a row of df.iterrows()
len(df) == Len(df.cols)

EstaEn(c, cols) == \E p \in 1..Len(cols) : cols[p] = c

\* df.at[i, col] = valor: a label that is no column yet is added as a new
\* column (NaN in every other row) before the cell is set.
at(df, fila, col, valor) ==
  LET cols == IF EstaEn(col, df.cols) THEN df.cols ELSE Append(df.cols, col)
      ampliada(f) == [c \in DOMAIN f \cup {col} |->
                       IF c \in DOMAIN f THEN f[c] ELSE NaN]
  IN  [cols |-> cols,
       filas |-> [n \in 1..Len(df.filas) |->
                   IF n = fila + 1
                   THEN [ampliada(df.filas[n]) EXCEPT ![col] = valor]
                   ELSE ampliada(df.filas[n])]]

\* pd.concat([primera_fila, df], ignore_index=True): the columns are the
\* union of both frames' columns, primera_fila's first; missing cells are NaN.
RECURSIVE Nuevas(_, _)
Nuevas(cols, base) ==
  IF cols = <<>> THEN <<>>
  ELSE IF EstaEn(Head(cols), base) THEN Nuevas(Tail(cols), base)
       ELSE <<Head(cols)>> \o Nuevas(Tail(cols), base)

concat(primera_fila, df) ==
  LET cols == primera_fila.cols \o Nuevas(df.cols, primera_fila.cols)
      etiquetas == {cols[p] : p \in 1..Len(cols)}
      completa(f) == [c \in etiquetas |-> IF c \in DOMAIN f THEN f[c] ELSE NaN]
  IN  [cols |-> cols,
       filas |-> [n \in 1..(Len(primera_fila.filas) + Len(df.filas)) |->
                   IF n <= Len(primera_fila.filas)
                   THEN completa(primera_fila.filas[n])
                   ELSE completa(df.filas[n - Len(primera_fila.filas)])]]

\* df.to_csv(ruta, sep=';', index=False, header=False): the written lines.
to_csv(df) ==
  [n \in 1..Len(df.filas) |->
    [p \in 0..(Len(df.cols) - 1) |-> EscribirCelda(df.filas[n][df.cols[p + 1]])]]

(***************************************************************************)
(* procesar_archivo_principal: the search of one row in the three tables.   *)
(***************************************************************************)
NoHallado == [coincidencia |-> FALSE, nuevo_valor |-> NO_ENCONTRADO, j |-> 0]

\* valor_comparar of one reference row
valor_comparar(df, fila, col_clave) ==
  IF len(df) > col_clave THEN normalizar_valores(fila[col_clave]) ELSE <<>>

\* the value a matching reference row gives
valor_de(df, fila, col_valor) ==
  IF len(df) > col_valor THEN fila[col_valor] ELSE NO_ENCONTRADO

RECURSIVE BuscarDesde(_, _, _, _, _)
BuscarDesde(df, col_clave, col_valor, valor_buscar, j) ==
  IF j > Len(df.filas) THEN NoHallado
  ELSE IF valor_buscar = valor_comparar(df, df.filas[j], col_clave)
       THEN [coincidencia |-> TRUE,
             nuevo_valor |-> valor_de(df, df.filas[j], col_valor),
             j |-> j]
       ELSE BuscarDesde(df, col_clave, col_valor, valor_buscar, j + 1)

\* the loop without its break: the last matching row decides
RECURSIVE BuscarSinBreak(_, _, _, _)
BuscarSinBreak(df, col_clave, col_valor, valor_buscar) ==
  IF df.filas = <<>> THEN NoHallado
  ELSE LET n == Len(df.filas)
       IN  IF valor_buscar = valor_comparar(df, df.filas[n], col_clave)
           THEN [coincidencia |-> TRUE,
                 nuevo_valor |-> valor_de(df, df.filas[n], col_valor),
                 j |-> n]
           ELSE BuscarSinBreak([df EXCEPT !.filas = SubSeq(df.filas, 1, n - 1)],
                               col_clave, col_valor, valor_buscar)

\* for j, fila in df.iterrows(): ... break
BuscarEnTabla(df, col_clave, col_valor, valor_buscar) ==
  BuscarDesde(df, col_clave, col_valor, valor_buscar, 1)

Resultado(r, fuente, buscadas_) ==
  [coincidencia |-> r.coincidencia, nuevo_valor |-> r.nuevo_valor,
   fuente |-> IF r.coincidencia THEN fuente ELSE "ninguna", j |-> r.j,
   buscadas |-> buscadas_]

\* the three chained searches of one row
ResolverFila(dfd, dfu, dfl, valor_buscar) ==
  LET en_div == ~empty(dfd)
      r_div == IF en_div
               THEN BuscarEnTabla(dfd, COL_CLAVE_FWD, COL_VALOR_FWD, valor_buscar)
               ELSE NoHallado
      b_div == IF en_div THEN <<"fwd_div">> ELSE <<>>
      en_usd == ~r_div.coincidencia /\ ~empty(dfu)
      r_usd == IF en_usd
               THEN BuscarEnTabla(dfu, COL_CLAVE_FWD, COL_VALOR_FWD, valor_buscar)
               ELSE NoHallado
      b_usd == IF en_usd THEN Append(b_div, "fwd_usd") ELSE b_div
      en_liq == ~r_div.coincidencia /\ ~r_usd.coincidencia /\ ~empty(dfl)
      r_liq == IF en_liq
               THEN BuscarEnTabla(dfl, COL_CLAVE_LIQ, COL_VALOR_LIQ, valor_buscar)
               ELSE NoHallado
      b_liq == IF en_liq THEN Append(b_usd, "liquidaciones") ELSE b_usd
  IN  IF r_div.coincidencia THEN Resultado(r_div, "fwd_div", b_liq)
      ELSE IF r_usd.coincidencia THEN Resultado(r_usd, "fwd_usd", b_liq)
      ELSE Resultado(r_liq, "liquidaciones", b_liq)

\* valor_buscar = normalizar_valores(fila[4]) if len(fila) > 4 else ""
valor_buscar_de(fila) ==
  IF Cardinality(DOMAIN fila) > COL_BUSCAR
  THEN normalizar_valores(fila[COL_BUSCAR]) ELSE <<>>

ContarTodoModificado(coincidencia, m, n) == <<m + 1, n>>

\* modificadas += 1 / no_encontradas += 1
Contar(coincidencia, m, n) ==
  IF coincidencia THEN <<m + 1, n>> ELSE <<m, n + 1>>

NoRegistrar(coincidencia, fila, valor_buscar) == <<>>

\* no_encontrados_logger.info(f"Fila {i+2}: Valor no encontrado: {valor_buscar}")
LineasNoEncontrado(coincidencia, fila, valor_buscar) ==
  IF coincidencia THEN <<>>
  ELSE <<[fila |-> fila + 2, valor_buscar |-> valor_buscar]>>

\* logging.info(f"Coincidencia en <tabla> - Fila {i+2}: {valor_buscar} -> {nuevo_valor}")
LineasCoincidencia(r, fila, valor_buscar) ==
  IF r.coincidencia
  THEN <<[fuente |-> r.fuente, fila |-> fila + 2, valor_buscar |-> valor_buscar,
          nuevo_valor |-> r.nuevo_valor]>>
  ELSE <<>>

\* One iteration of "for i, fila in df_principal.iterrows()".  The row is read
\* from the frame being written: the writes touch column 3 only, and a column
\* added by .at never takes the row's length past 4.
PasoFila(st, dfd, dfu, dfl) ==
  LET fila == st.df.filas[st.i + 1]
      valor_buscar == valor_buscar_de(fila)
      r == ResolverFila(dfd, dfu, dfl, valor_buscar)
      cuenta == Contar(r.coincidencia, st.modificadas, st.no_encontradas)
  IN  [df |-> at(st.df, st.i, COL_DESTINO, r.nuevo_valor),
       i |-> st.i + 1,
       modificadas |-> cuenta[1],
       no_encontradas |-> cuenta[2],
       log_ne |-> st.log_ne \o LineasNoEncontrado(r.coincidencia, st.i, valor_buscar),
       log |-> st.log \o LineasCoincidencia(r, st.i, valor_buscar),
       buscadas |-> r.buscadas]

\* lines 181-224: the names, the existence checks and the reads
archivo_principal(fc) == Nombre(PREF_PRINCIPAL, fc, "")

archivo_fwd_div(fl) == Nombre(PREF_FWD_DIV, fl, "")

archivo_fwd_usd(fl) == Nombre(PREF_FWD_USD, fl, "")

archivo_liquidaciones(fl) == Nombre(PREF_LIQUIDACIONES, fl, "")

LeerSecundario(dat, ruta) ==
  IF existe(dat, ruta) THEN leer_archivo_csv(dat, ruta) ELSE DataFrameVacio

\* the primary frame, or the empty frame when the run must return False
LeerPrincipal(dat, fc) ==
  IF ~existe(dat, archivo_principal(fc)) THEN DataFrameVacio
  ELSE leer_archivo_csv(dat, archivo_principal(fc))

\* lines 277-291: the lines written to procesados/<archivo_principal>
Salida(dat, fc, df) ==
  LET df_original == read_csv(dat, archivo_principal(fc))
      primera_fila == [cols |-> df_original.cols,
                       filas |-> SubSeq(df_original.filas, 1, 1)]
  IN  to_csv(concat(primera_fila, df))

Resumen(total, m, n) ==
  [total |-> total, modificadas |-> m, no_encontradas |-> n]

(***************************************************************************)
(* The inputs the model draws: the files of data/ for one date.             *)
(***************************************************************************)
FECHA_CORTA == <<"D", "2", "5", "0", "1", "0", "1">>

Archivo(estado, lineas) == [estado |-> estado, lineas |-> lineas]

\* stands for "no such file" while the directory is being put together
Ausente == Archivo("ausente", <<>>)

Encabezado(ancho) == [c \in 0..(ancho - 1) |-> <<"H">>]

FilaPrincipal(ancho, clave) ==
  [c \in 0..(ancho - 1) |->
    IF c = COL_BUSCAR THEN clave ELSE IF c = COL_DESTINO THEN <<"v">> ELSE <<"x">>]

PrincipalOk(ancho, claves) ==
  Archivo("ok", <<Encabezado(ancho)>> \o
                [n \in 1..Len(claves) |-> FilaPrincipal(ancho, claves[n])])

\* the value of row n of table t: it tells where a resolved value came from
Marca(t, n) == <<t, Digitos[n + 1]>>

FilaRef(ancho, col_clave, col_valor, clave, valor) ==
  [c \in 0..(ancho - 1) |->
    IF c = col_valor THEN valor ELSE IF c = col_clave THEN clave ELSE <<"x">>]

TablaOk(t, ancho, col_clave, col_valor, claves) ==
  Archivo("ok", <<Encabezado(ancho)>> \o
                [n \in 1..Len(claves) |->
                  FilaRef(ancho, col_clave, col_valor, claves[n], Marca(t, n))])

\* a file read_csv raises on, though it holds a row with the key "45"
TablaIlegible(t, ancho, col_clave, col_valor) ==
  [TablaOk(t, ancho, col_clave, col_valor, <<<<"4", "5">>>>) EXCEPT !.estado = "ilegible"]

SecuenciasHasta(S, n) == UNION {[1..m -> S] : m \in 0..n}

ClavesPrincipal == {<<"0", "4", "5">>, <<"9", "9">>}

ClavesRef == {<<"4", "5">>, <<>>}

AnchosPrincipal == {COL_DESTINO, COL_BUSCAR, COL_BUSCAR + 1}

AnchosFwd == {1, COL_CLAVE_FWD + 1}

AnchosLiq == {1, COL_CLAVE_LIQ + 1, COL_VALOR_LIQ + 1}

OpcionesPrincipal ==
  {Ausente, Archivo("ok", <<>>),
   [PrincipalOk(COL_BUSCAR + 1, <<<<"9", "9">>>>) EXCEPT !.estado = "ilegible"]}
  \cup {PrincipalOk(w, cl) : w \in AnchosPrincipal,
                             cl \in SecuenciasHasta(ClavesPrincipal, MaxRows)}

OpcionesTabla(t, anchos, col_clave, col_valor) ==
  {Ausente, TablaIlegible(t, col_clave + 1, col_clave, col_valor)}
  \cup {TablaOk(t, w, col_clave, col_valor, cl) :
          w \in anchos, cl \in SecuenciasHasta(ClavesRef, MaxRefTotal)}

FilasDe(f) == IF f.estado = "ok" /\ f.lineas # <<>> THEN Len(f.lineas) - 1 ELSE 0

\* data/ holding the four files of one date, those that exist
Directorio(fc, p, d, u, l) ==
  LET fl == convertir_formato_fecha(fc, "corto")
      todos == (archivo_principal(fc) :> p) @@ (archivo_fwd_div(fl) :> d)
               @@ (archivo_fwd_usd(fl) :> u) @@ (archivo_liquidaciones(fl) :> l)
  IN  [n \in {m \in DOMAIN todos : todos[m] # Ausente} |-> todos[n]]

Directorios ==
  {Directorio(FECHA_CORTA, p, d, u, l) :
     p \in OpcionesPrincipal,
     <<d, u, l>> \in
       {t \in OpcionesTabla("d", AnchosFwd, COL_CLAVE_FWD, COL_VALOR_FWD)
              \X OpcionesTabla("u", AnchosFwd, COL_CLAVE_FWD, COL_VALOR_FWD)
              \X OpcionesTabla("l", AnchosLiq, COL_CLAVE_LIQ, COL_VALOR_LIQ) :
          FilasDe(t[1]) + FilasDe(t[2]) + FilasDe(t[3]) <= MaxRefTotal}}

(***************************************************************************)
(* One call of procesar_archivo_principal(fecha_corta, fecha_larga, ...),   *)
(* one loop iteration at a time.  Spec is the call main makes for --fecha.  *)
(***************************************************************************)
LoteOcioso ==
  /\ pc_lote = "inactivo"
  /\ archivos_principales = <<>>
  /\ k = 0
  /\ archivos_procesados = 0
  /\ retorno_lote = "pendiente"
  /\ intentos = <<>>

\* the locals of a call that has just been entered
CorridaSinEmpezar ==
  /\ df_principal = DataFrameVacio
  /\ df_fwd_div = DataFrameVacio
  /\ df_fwd_usd = DataFrameVacio
  /\ df_liquidaciones = DataFrameVacio
  /\ i = 0
  /\ total_filas = 0
  /\ modificadas = 0
  /\ no_encontradas = 0
  /\ log = <<>>
  /\ resumen = <<>>
  /\ retorno = "pendiente"
  /\ buscadas = <<>>

Init ==
  /\ data \in Directorios
  /\ procesados = <<>>
  /\ log_no_encontrados = <<>>
  /\ fecha_corta = FECHA_CORTA
  /\ fecha_larga = convertir_formato_fecha(FECHA_CORTA, "corto")
  /\ pc = "inicio"
  /\ CorridaSinEmpezar
  /\ LoteOcioso

\* lines 181-224
Cargar ==
  /\ pc = "inicio"
  /\ LET df == LeerPrincipal(data, fecha_corta)
     IN  IF empty(df)
         THEN /\ pc' = "fin"
              /\ retorno' = FALSE
              /\ UNCHANGED <<df_principal, df_fwd_div, df_fwd_usd, df_liquidaciones,
                             total_filas>>
         ELSE /\ pc' = "bucle"
              /\ retorno' = retorno
              /\ df_principal' = df
              /\ df_fwd_div' = LeerSecundario(data, archivo_fwd_div(fecha_larga))
              /\ df_fwd_usd' = LeerSecundario(data, archivo_fwd_usd(fecha_larga))
              /\ df_liquidaciones' =
                   LeerSecundario(data, archivo_liquidaciones(fecha_larga))
              /\ total_filas' = Len(df.filas)
  /\ UNCHANGED <<data, procesados, i, modificadas, no_encontradas,
                 log_no_encontrados, log, resumen, buscadas, fecha_corta,
                 fecha_larga>>
  /\ UNCHANGED lote

\* lines 227-275: one iteration of the loop over df_principal
IterarFila ==
  /\ pc = "bucle"
  /\ i < Len(df_principal.filas)
  /\ LET st == PasoFila([df |-> df_principal, i |-> i,
                         modificadas |-> modificadas,
                         no_encontradas |-> no_encontradas,
                         log_ne |-> log_no_encontrados, log |-> log,
                         buscadas |-> buscadas],
                        df_fwd_div, df_fwd_usd, df_liquidaciones)
     IN  /\ df_principal' = st.df
         /\ i' = st.i
         /\ modificadas' = st.modificadas
         /\ no_encontradas' = st.no_encontradas
         /\ log_no_encontrados' = st.log_ne
         /\ log' = st.log
         /\ buscadas' = st.buscadas
  /\ UNCHANGED <<data, procesados, pc, df_fwd_div, df_fwd_usd, df_liquidaciones,
                 total_filas, resumen, retorno, fecha_corta, fecha_larga>>
  /\ UNCHANGED lote

\* lines 277-305: the save, the summary and the return.  falla: an exception
\* raised while saving (lines 278-291), caught at line 303.
Guardar ==
  /\ pc = "bucle"
  /\ i >= Len(df_principal.filas)
  /\ \E falla \in BOOLEAN :
       IF falla
       THEN /\ retorno' = FALSE
            /\ UNCHANGED <<procesados, resumen>>
       ELSE /\ retorno' = TRUE
            /\ procesados' = (archivo_principal(fecha_corta) :>
                                Salida(data, fecha_corta, df_principal))
                             @@ procesados
            /\ resumen' = <<Resumen(total_filas, modificadas, no_encontradas)>>
  /\ pc' = "fin"
  /\ UNCHANGED <<data, df_principal, df_fwd_div, df_fwd_usd, df_liquidaciones, i,
                 total_filas, modificadas, no_encontradas, log_no_encontrados,
                 log, buscadas, fecha_corta, fecha_larga>>
  /\ UNCHANGED lote

Next == Cargar \/ IterarFila \/ Guardar

Spec == Init /\ [][Next]_vars

(***************************************************************************)
(* The same call on one primary row and one fwd_div row, the two key cells  *)
(* drawn from every string up to a length over a small alphabet.            *)
(***************************************************************************)
Alfabeto == {"0", "7", " ", "A"}

Cadenas(n) == UNION {[1..m -> Alfabeto] : m \in 0..n}

DirectoriosNorm ==
  {Directorio(FECHA_CORTA,
              PrincipalOk(COL_BUSCAR + 1, <<kp>>),
              TablaOk("d", COL_CLAVE_FWD + 1, COL_CLAVE_FWD, COL_VALOR_FWD, <<kr>>),
              Ausente, Ausente) :
     kp \in Cadenas(MaxLen), kr \in Cadenas(MaxRefLen)}

InitNorm ==
  /\ data \in DirectoriosNorm
  /\ procesados = <<>>
  /\ log_no_encontrados = <<>>
  /\ fecha_corta = FECHA_CORTA
  /\ fecha_larga = convertir_formato_fecha(FECHA_CORTA, "corto")
  /\ pc = "inicio"
  /\ CorridaSinEmpezar
  /\ LoteOcioso

SpecNorm == InitNorm /\ [][Next]_vars

(***************************************************************************)
(* procesar_todos_los_archivos over a directory holding files of two dates. *)
(***************************************************************************)
FECHA_CORTA_2 == <<"D", "2", "5", "0", "1", "0", "2">>

OpcionesPrincipalLote ==
  {Ausente, Archivo("ok", <<Encabezado(COL_BUSCAR + 1)>>),
   [PrincipalOk(COL_BUSCAR + 1, <<<<"9", "9">>>>) EXCEPT !.estado = "ilegible"],
   PrincipalOk(COL_BUSCAR + 1, <<<<"0", "4", "5">>>>)}

OpcionesFwdDivLote ==
  {Ausente,
   TablaOk("d", COL_CLAVE_FWD + 1, COL_CLAVE_FWD, COL_VALOR_FWD, <<<<"4", "5">>>>)}

\* a copy of the primary file kept beside it under the name <primary>.bak
DirectorioConCopia(fc, p, d, copia) ==
  LET ruta == Nombre(PREF_PRINCIPAL, fc, ".bak")
      todos == (ruta :> IF copia THEN PrincipalOk(COL_BUSCAR + 1, <<<<"9", "9">>>>)
                        ELSE Ausente)
               @@ Directorio(fc, p, d, Ausente, Ausente)
  IN  [n \in {m \in DOMAIN todos : todos[m] # Ausente} |-> todos[n]]

DirectoriosLote ==
  {DirectorioConCopia(FECHA_CORTA, p1, d1, c1) @@
   DirectorioConCopia(FECHA_CORTA_2, p2, Ausente, c2) :
     p1 \in OpcionesPrincipalLote, p2 \in OpcionesPrincipalLote,
     d1 \in OpcionesFwdDivLote, c1 \in BOOLEAN, c2 \in BOOLEAN}

\* os.listdir gives the names in no particular order
Ordenes(S) ==
  {o \in [1..Cardinality(S) -> S] :
     \A a \in 1..Cardinality(S) : \A b \in 1..Cardinality(S) :
       a # b => o[a] # o[b]}

InitLote ==
  /\ data \in DirectoriosLote
  /\ procesados = <<>>
  /\ log_no_encontrados = <<>>
  /\ fecha_corta = <<>>
  /\ fecha_larga = <<>>
  /\ pc = "sin llamada"
  /\ CorridaSinEmpezar
  /\ pc_lote = "inicio"
  /\ archivos_principales = <<>>
  /\ k = 0
  /\ archivos_procesados = 0
  /\ retorno_lote = "pendiente"
  /\ intentos = <<>>

SinCambioEnCorrida ==
  UNCHANGED <<pc, df_principal, df_fwd_div, df_fwd_usd, df_liquidaciones, i,
              total_filas, modificadas, no_encontradas, log, resumen, retorno,
              buscadas, fecha_corta, fecha_larga>>

\* lines 314-324
Listar ==
  /\ pc_lote = "inicio"
  /\ \E orden \in Ordenes({a \in DOMAIN data : CoincidePatron(a)}) :
       /\ archivos_principales' = orden
       /\ IF orden = <<>>
          THEN pc_lote' = "fin" /\ retorno_lote' = 0
          ELSE pc_lote' = "bucle" /\ retorno_lote' = retorno_lote
  /\ UNCHANGED <<data, procesados, log_no_encontrados, k, archivos_procesados,
                 intentos>>
  /\ SinCambioEnCorrida

\* lines 326-330: the next name of the listing, and the call made for it
Llamar ==
  /\ pc_lote = "bucle"
  /\ k < Len(archivos_principales)
  /\ LET fechas == obtener_fecha_del_archivo(archivos_principales[k + 1])
     IN  IF fechas[1] # <<>> /\ fechas[2] # <<>>
         THEN /\ fecha_corta' = fechas[1]
              /\ fecha_larga' = fechas[2]
              /\ pc' = "inicio"
              /\ df_principal' = DataFrameVacio
              /\ df_fwd_div' = DataFrameVacio
              /\ df_fwd_usd' = DataFrameVacio
              /\ df_liquidaciones' = DataFrameVacio
              /\ i' = 0
              /\ total_filas' = 0
              /\ modificadas' = 0
              /\ no_encontradas' = 0
              /\ log' = <<>>
              /\ resumen' = <<>>
              /\ retorno' = "pendiente"
              /\ buscadas' = <<>>
              /\ pc_lote' = "llamada"
              /\ k' = k
         ELSE /\ k' = k + 1
              /\ pc_lote' = pc_lote
              /\ SinCambioEnCorrida
  /\ UNCHANGED <<data, procesados, log_no_encontrados, archivos_principales,
                 archivos_procesados, retorno_lote, intentos>>

\* a failed call ends the loop, as an exception leaving the call would
DetenerseAlFallar(posicion, exito, total) ==
  IF exito THEN posicion + 1 ELSE total

\* the loop goes on to the next name whatever the call returned
SiguientePosicion(posicion, exito, total) == posicion + 1

\* lines 330-331: the call has returned
Recoger ==
  /\ pc_lote = "llamada"
  /\ pc = "fin"
  /\ archivos_procesados' =
       IF retorno THEN archivos_procesados + 1 ELSE archivos_procesados
  /\ intentos' = Append(intentos,
                        [archivo |-> archivos_principales[k + 1],
                         ruta |-> archivo_principal(fecha_corta),
                         retorno |-> retorno])
  /\ k' = SiguientePosicion(k, retorno, Len(archivos_principales))
  /\ pc_lote' = "bucle"
  /\ UNCHANGED <<data, procesados, log_no_encontrados, archivos_principales,
                 retorno_lote>>
  /\ SinCambioEnCorrida

\* line 333
Retornar ==
  /\ pc_lote = "bucle"
  /\ k >= Len(archivos_principales)
  /\ pc_lote' = "fin"
  /\ retorno_lote' = archivos_procesados
  /\ UNCHANGED <<data, procesados, log_no_encontrados, archivos_principales, k,
                 archivos_procesados, intentos>>
  /\ SinCambioEnCorrida

NextLote ==
  Listar \/ Llamar \/ Cargar \/ IterarFila \/ Guardar \/ Recoger \/ Retornar

SpecLote == InitLote /\ [][NextLote]_vars

(***************************************************************************)
(* What the properties speak of, stated without the program's loops.        *)
(***************************************************************************)
Min(S) == CHOOSE x \in S : \A y \in S : x <= y

Max(S) == CHOOSE x \in S : \A y \in S : x >= y

\* s without the blanks around it
Recortada(s) ==
  LET P == {p \in 1..Len(s) : s[p] # " "}
  IN  IF P = {} THEN <<>> ELSE SubSeq(s, Min(P), Max(P))

\* a string of digits without its leading zeros, "0" when it is all zeros
SinCerosIzquierda(t) ==
  LET Q == {p \in 1..Len(t) : t[p] # "0"}
  IN  IF Q = {} THEN <<"0">> ELSE SubSeq(t, Min(Q), Len(t))

\* the normalized form the specification gives a cell
NormaEsperada(celda) ==
  IF celda = NaN THEN <<>>
  ELSE LET t == Recortada(celda)
       IN  IF t # <<>> /\ \A p \in 1..Len(t) : t[p] \in {Digitos[d] : d \in 1..10}
           THEN SinCerosIzquierda(t)
           ELSE t

Tabla(nombre, cols, filas, col_clave, col_valor) ==
  [nombre |-> nombre, ancho |-> cols, filas |-> filas,
   col_clave |-> col_clave, col_valor |-> col_valor]

\* the three tables as loaded, in priority order
TablasCargadas ==
  <<Tabla("fwd_div", Len(df_fwd_div.cols), df_fwd_div.filas,
          COL_CLAVE_FWD, COL_VALOR_FWD),
    Tabla("fwd_usd", Len(df_fwd_usd.cols), df_fwd_usd.filas,
          COL_CLAVE_FWD, COL_VALOR_FWD),
    Tabla("liquidaciones", Len(df_liquidaciones.cols), df_liquidaciones.filas,
          COL_CLAVE_LIQ, COL_VALOR_LIQ)>>

Utilizable(ruta) ==
  /\ ruta \in DOMAIN data
  /\ data[ruta].estado = "ok"
  /\ Len(data[ruta].lineas) > 1

\* the data rows of a file of data/, cell by cell as pandas reads them
TablaDeArchivo(nombre, ruta, col_clave, col_valor) ==
  IF Utilizable(ruta)
  THEN LET lineas == data[ruta].lineas
       IN  Tabla(nombre, Cardinality(DOMAIN lineas[1]),
                 [n \in 1..(Len(lineas) - 1) |->
                   [c \in DOMAIN lineas[n + 1] |-> LeerCelda(lineas[n + 1][c])]],
                 col_clave, col_valor)
  ELSE Tabla(nombre, 0, <<>>, col_clave, col_valor)

\* the chain made of the files that are there and hold data rows: a file that
\* is missing, unreadable or without data rows has no row in it
TablasDisponibles ==
  <<TablaDeArchivo("fwd_div", archivo_fwd_div(fecha_larga),
                   COL_CLAVE_FWD, COL_VALOR_FWD),
    TablaDeArchivo("fwd_usd", archivo_fwd_usd(fecha_larga),
                   COL_CLAVE_FWD, COL_VALOR_FWD),
    TablaDeArchivo("liquidaciones", archivo_liquidaciones(fecha_larga),
                   COL_CLAVE_LIQ, COL_VALOR_LIQ)>>

Posiciones(tablas) ==
  UNION {{<<t, j>> : j \in 1..Len(tablas[t].filas)} : t \in 1..3}

\* the key the program compares for row j of table t: the normalized key
\* cell, the empty string when the table has no key column
ClaveDe(tablas, pos) ==
  LET tb == tablas[pos[1]]
  IN  IF tb.ancho > tb.col_clave
      THEN NormaEsperada(tb.filas[pos[2]][tb.col_clave]) ELSE <<>>

Coincidencias(tablas, clave) ==
  {pos \in Posiciones(tablas) : ClaveDe(tablas, pos) = clave}

Antes(p, q) == p[1] < q[1] \/ (p[1] = q[1] /\ p[2] < q[2])

\* the earliest matching row: table priority first, row position second
Primera(tablas, clave) ==
  CHOOSE p \in Coincidencias(tablas, clave) :
    \A q \in Coincidencias(tablas, clave) : q = p \/ Antes(p, q)

TieneValor(tablas, pos) == tablas[pos[1]].ancho > tablas[pos[1]].col_valor

ValorEn(tablas, pos) == tablas[pos[1]].filas[pos[2]][tablas[pos[1]].col_valor]

\* rows of the primary frame the loop has been through (0-based labels)
Procesadas == IF pc \in {"bucle", "fin"} THEN 0..(i - 1) ELSE {}

\* the key of primary row r, from the cell read from the file
ClavePrincipal(r) ==
  LET fila == df_principal.filas[r + 1]
  IN  IF COL_BUSCAR \in DOMAIN fila /\ Len(df_principal.cols) > COL_BUSCAR
      THEN NormaEsperada(fila[COL_BUSCAR]) ELSE <<>>

LineasDe(registro, r) == {n \in 1..Len(registro) : registro[n].fila = r + 2}

Destino(r) ==
  IF COL_DESTINO \in DOMAIN df_principal.filas[r + 1]
  THEN df_principal.filas[r + 1][COL_DESTINO] ELSE <<"sin columna">>

NombresTabla == <<"fwd_div", "fwd_usd", "liquidaciones">>

IndiceTabla(nombre) == CHOOSE t \in 1..3 : NombresTabla[t] = nombre

(***************************************************************************)
(* The properties.                                                          *)
(***************************************************************************)
RutaPrincipal == archivo_principal(fecha_corta)

\* data rows of the primary file
FilasArchivoPrincipal == Len(data[RutaPrincipal].lineas) - 1

\* C1: once the primary file is loaded, total_filas is its number of data
\* rows; after k iterations modificadas + no_encontradas = k, every row gone
\* through is counted by exactly one of the two counters (it has a match
\* line or a not-found line, never both, and the counters are the numbers of
\* those lines) and its column 3 holds the value resolved for it; after a
\* successful run every row has gone through and the summary reports
\* total = modificadas + no_encontradas = number of data rows.
C1_Completitud ==
  (pc \in {"bucle", "fin"} /\ total_filas > 0) =>
    /\ total_filas = FilasArchivoPrincipal
    /\ total_filas = Len(df_principal.filas)
    /\ modificadas + no_encontradas = i
    /\ modificadas = Len(log)
    /\ no_encontradas = Len(log_no_encontrados)
    /\ \A r \in Procesadas :
         /\ Cardinality(LineasDe(log, r)) + Cardinality(LineasDe(log_no_encontrados, r)) = 1
         /\ COL_DESTINO \in DOMAIN df_principal.filas[r + 1]
         /\ \A n \in LineasDe(log, r) : Destino(r) = log[n].nuevo_valor
         /\ LineasDe(log_no_encontrados, r) # {} => Destino(r) = NO_ENCONTRADO
    /\ (pc = "fin" /\ retorno = TRUE) =>
         /\ i = total_filas
         /\ resumen = <<Resumen(total_filas, modificadas, no_encontradas)>>
         /\ resumen[1].total = resumen[1].modificadas + resumen[1].no_encontradas
         /\ resumen[1].total = FilasArchivoPrincipal

C1_Testigo ==
  /\ pc = "fin"
  /\ retorno = TRUE
  /\ total_filas = 2
  /\ modificadas = 1
  /\ no_encontradas = 1

\* C2: first match wins.  For every row gone through whose key equals the
\* key of some reference row, the match line names the table of the earliest
\* such row (fwd_div before fwd_usd before liquidaciones, then row position),
\* and, that table having its value column, the value logged and written to
\* column 3 is that row's value; a row whose key equals no reference key has
\* no match line.  The last row gone through searched no table after the one
\* it matched in.
C2_PrimeraCoincidencia ==
  /\ \A r \in Procesadas :
       LET clave == ClavePrincipal(r)
       IN  IF Coincidencias(TablasCargadas, clave) = {}
           THEN LineasDe(log, r) = {}
           ELSE LET p == Primera(TablasCargadas, clave)
                IN  /\ LineasDe(log, r) # {}
                    /\ \A n \in LineasDe(log, r) :
                         /\ log[n].fuente = NombresTabla[p[1]]
                         /\ TieneValor(TablasCargadas, p) =>
                              /\ log[n].nuevo_valor = ValorEn(TablasCargadas, p)
                              /\ Destino(r) = ValorEn(TablasCargadas, p)
  /\ (Procesadas # {} /\ LineasDe(log, i - 1) # {}) =>
       \A n \in LineasDe(log, i - 1) : \A b \in 1..Len(buscadas) :
         IndiceTabla(buscadas[b]) <= IndiceTabla(log[n].fuente)

\* the key "45" is in fwd_div twice and the row resolved took the first
C2_Testigo ==
  /\ pc = "fin"
  /\ Len(df_fwd_div.filas) = 2
  /\ Cardinality(Coincidencias(TablasCargadas, <<"4", "5">>)) = 2
  /\ \E n \in 1..Len(log) :
       /\ log[n].valor_buscar = <<"4", "5">>
       /\ log[n].nuevo_valor = Marca("d", 1)

\* C4: a row gone through whose key equals the key of no row of the three
\* tables has "no encontrado" in column 3 and exactly one line (row, key) in
\* the not-found log; the not-found log holds no other line, so its length is
\* the number of such rows and equals no_encontradas, and its lines are in
\* increasing row order.
C4_NoEncontrado ==
  /\ \A r \in Procesadas :
       IF Coincidencias(TablasCargadas, ClavePrincipal(r)) = {}
       THEN /\ Destino(r) = NO_ENCONTRADO
            /\ Cardinality(LineasDe(log_no_encontrados, r)) = 1
            /\ \A n \in LineasDe(log_no_encontrados, r) :
                 log_no_encontrados[n].valor_buscar = ClavePrincipal(r)
       ELSE LineasDe(log_no_encontrados, r) = {}
  /\ no_encontradas = Len(log_no_encontrados)
  /\ no_encontradas =
       Cardinality({r \in Procesadas :
                      Coincidencias(TablasCargadas, ClavePrincipal(r)) = {}})
  /\ \A n \in 1..Len(log_no_encontrados) :
       /\ log_no_encontrados[n].fila - 2 \in Procesadas
       /\ \A m \in 1..(n - 1) :
            log_no_encontrados[m].fila < log_no_encontrados[n].fila

\* two rows not found, the second with key "99"
C4_Testigo ==
  /\ pc = "fin"
  /\ no_encontradas = 2
  /\ log_no_encontrados[2] = [fila |-> 3, valor_buscar |-> <<"9", "9">>]
  /\ Destino(1) = NO_ENCONTRADO

\* C5: a reference file that is missing, unreadable or without data rows
\* does not stop the run (a usable primary file always enters the loop), and
\* every row is resolved as the chain of the remaining files resolves it:
\* matched in the earliest row, among the files that are there and hold data
\* rows, whose key equals the row's key, or not found when there is none.
C5_TablaAusente ==
  /\ (pc # "inicio" /\ Utilizable(RutaPrincipal)) => total_filas > 0
  /\ \A r \in Procesadas :
       LET clave == ClavePrincipal(r)
           hay == Coincidencias(TablasDisponibles, clave) # {}
       IN  /\ hay <=> LineasDe(log, r) # {}
           /\ ~hay => Destino(r) = NO_ENCONTRADO
           /\ hay =>
                LET p == Primera(TablasDisponibles, clave)
                IN  /\ \A n \in LineasDe(log, r) : log[n].fuente = NombresTabla[p[1]]
                    /\ Destino(r) = IF TieneValor(TablasDisponibles, p)
                                    THEN ValorEn(TablasDisponibles, p)
                                    ELSE NO_ENCONTRADO

\* fwd_div unreadable, fwd_usd missing: the row is resolved by liquidaciones
C5_Testigo ==
  /\ pc = "fin"
  /\ retorno = TRUE
  /\ archivo_fwd_div(fecha_larga) \in DOMAIN data
  /\ data[archivo_fwd_div(fecha_larga)].estado = "ilegible"
  /\ archivo_fwd_usd(fecha_larga) \notin DOMAIN data
  /\ \E n \in 1..Len(log) :
       log[n].fuente = "liquidaciones" /\ log[n].nuevo_valor = Marca("l", 1)

\* C6: with the primary file missing, unreadable or without data rows, the
\* call returns False, writes nothing to procesados/, emits no summary and no
\* not-found line, and resolves no row.
C6_PrincipalInutilizable ==
  (pc = "fin" /\ ~Utilizable(RutaPrincipal)) =>
    /\ retorno = FALSE
    /\ procesados = <<>>
    /\ resumen = <<>>
    /\ log_no_encontrados = <<>>
    /\ log = <<>>
    /\ i = 0
    /\ modificadas = 0
    /\ no_encontradas = 0
    /\ df_principal = DataFrameVacio

\* the primary file is there but holds its header only
C6_Testigo ==
  /\ pc = "fin"
  /\ RutaPrincipal \in DOMAIN data
  /\ data[RutaPrincipal].estado = "ok"
  /\ Len(data[RutaPrincipal].lineas) = 1
  /\ retorno = FALSE

\* C8: after a successful run the written file has as many lines and as
\* many columns as the primary file, its first line is the header as it was,
\* and its data lines differ from the input's in column 3 at most; data/ is
\* as it was.
C8_SoloCambiaDestino ==
  (pc = "fin" /\ retorno = TRUE) =>
    LET entrada == data[RutaPrincipal].lineas
        salida == procesados[RutaPrincipal]
    IN  /\ Len(salida) = Len(entrada)
        /\ \A n \in 1..Len(salida) : DOMAIN salida[n] = DOMAIN entrada[n]
        /\ salida[1] = entrada[1]
        /\ \A n \in 2..Len(salida) : \A c \in DOMAIN entrada[n] :
             c # COL_DESTINO => salida[n][c] = entrada[n][c]

\* C9: a reference row without its key column or without its value column
\* is skipped: no row is matched in a table that lacks one of the two, and no
\* row counted as matched has "no encontrado" in column 3.
C9_FueraDeRangoOmitida ==
  \A n \in 1..Len(log) :
    LET tb == TablasCargadas[IndiceTabla(log[n].fuente)]
    IN  /\ tb.ancho > tb.col_clave
        /\ tb.ancho > tb.col_valor
        /\ log[n].nuevo_valor # NO_ENCONTRADO
        /\ Destino(log[n].fila - 2) # NO_ENCONTRADO

\* C10: a primary row without key column, or with no value in it, is
\* resolved with the empty key and is not found, whatever the tables hold:
\* column 3 becomes "no encontrado" and the row is counted as not found.
C10_ClaveVaciaNoEncontrada ==
  \A r \in Procesadas :
    LET fila == df_principal.filas[r + 1]
        malformada == \/ Len(df_principal.cols) <= COL_BUSCAR
                      \/ COL_BUSCAR \notin DOMAIN fila
                      \/ fila[COL_BUSCAR] = NaN
    IN  malformada =>
          /\ Destino(r) = NO_ENCONTRADO
          /\ Cardinality(LineasDe(log_no_encontrados, r)) = 1
          /\ \A n \in LineasDe(log_no_encontrados, r) :
               log_no_encontrados[n].valor_buscar = <<>>
          /\ LineasDe(log, r) = {}

\* C3: the key the program compares is the cell normalized as specified (a
\* missing cell gives the empty string, a cell that trimmed is all digits
\* gives its number without leading zeros, any other cell gives itself
\* trimmed), on the primary side and on the reference side alike: the row is
\* matched exactly when the two normalized cells are equal ("007" and "7"),
\* and column 3 then receives the reference row's value.
C3_Normalizacion ==
  \A r \in Procesadas :
    LET celda == LeerCelda(data[RutaPrincipal].lineas[r + 2][COL_BUSCAR])
        ref == LeerCelda(data[archivo_fwd_div(fecha_larga)].lineas[2][COL_CLAVE_FWD])
        registro == log \o log_no_encontrados
    IN  /\ Cardinality(LineasDe(registro, r)) = 1
        /\ \A n \in LineasDe(registro, r) :
             registro[n].valor_buscar = NormaEsperada(celda)
        /\ (NormaEsperada(celda) = NormaEsperada(ref)) <=> LineasDe(log, r) # {}
        /\ (NormaEsperada(celda) = NormaEsperada(ref)) =>
             /\ Destino(r) = Marca("d", 1)
             /\ \A n \in LineasDe(log, r) : log[n].fuente = "fwd_div"
        /\ (NormaEsperada(celda) # NormaEsperada(ref)) =>
             Destino(r) = NO_ENCONTRADO

\* the primary key "007" has met the reference key "7"
C3_Testigo ==
  /\ pc = "fin"
  /\ data[RutaPrincipal].lineas[2][COL_BUSCAR] = <<"0", "0", "7">>
  /\ data[archivo_fwd_div(fecha_larga)].lineas[2][COL_CLAVE_FWD] = <<"7">>
  /\ Len(log) = 1
  /\ log[1].valor_buscar = <<"7">>
  /\ Destino(0) = Marca("d", 1)

\* C7: whatever the calls return, when procesar_todos_los_archivos returns
\* every name of data/ that matches the primary-file pattern has been
\* attempted exactly once, and the count returned is the number of those
\* names whose processing returned success; while the loop runs, the names
\* before position k are those attempted, in the listing's order.
C7_AislamientoDeFallos ==
  /\ pc_lote \in {"bucle", "llamada"} =>
       /\ Len(intentos) = k
       /\ \A n \in 1..k : intentos[n].archivo = archivos_principales[n]
  /\ pc_lote = "fin" =>
       /\ \A a \in DOMAIN data :
            CoincidePatron(a) =>
              Cardinality({n \in 1..Len(intentos) : intentos[n].archivo = a}) = 1
       /\ \A n \in 1..Len(intentos) :
            intentos[n].archivo \in DOMAIN data /\ CoincidePatron(intentos[n].archivo)
       /\ retorno_lote =
            Cardinality({a \in DOMAIN data :
                           /\ CoincidePatron(a)
                           /\ \E n \in 1..Len(intentos) :
                                intentos[n].archivo = a /\ intentos[n].retorno})

\* the first file failed, the second was processed all the same
C7_Testigo ==
  /\ pc_lote = "fin"
  /\ Len(intentos) = 2
  /\ intentos[1].retorno = FALSE
  /\ intentos[2].retorno = TRUE
  /\ intentos[2].ruta \in DOMAIN procesados
  /\ retorno_lote = 1

====
